---- MODULE Spec2Model ----
(***************************************************************************)
(* A model of the two libraries of lude.rs:                                *)
(*   - ecs/src/lib.rs   : Components, a fixed-capacity component store     *)
(*   - simul/src/lib.rs : Simulator / Frame, a fixed-tick frame driver     *)
(* The component store is checked under Spec, the simulator under SimSpec. *)
(***************************************************************************)
EXTENDS Integers, Sequences, FiniteSets, TLC

(***************************************************************************)
(* Bounds of the model.                                                    *)
(***************************************************************************)
\* largest capacity handed to with_capacity_in
MaxCap == 2

(***************************************************************************)
(* Component store: constants and types.                                   *)
(***************************************************************************)
\* component_n = mask_size << 3: the number of buckets of the registry and
\* of bits of a mask. The code has 64; the model keeps a mask of two bits.
component_n == 2
Slots == 0..(component_n - 1)
\* the component types a caller may name: one more than the registry holds
Types == 1..(component_n + 1)
\* mem::size_of::<C>(): odd types are four bytes wide, even types zero-sized
SizeOf(c) == IF c % 2 = 1 THEN 4 ELSE 0
\* the value of a zero-sized type
Unit == 0
\* the values of type C: one for a zero-sized type, two for type 1, one
\* for every other sized type
ValuesOf(c) == IF SizeOf(c) = 0 THEN {Unit} ELSE IF c = 1 THEN {1, 2} ELSE {c}
\* memory never written, or moved out of by ptr::read
Uninit == -1
\* Unique::empty(): the dangling pointer of a zero-sized column
Sentinel == 0
\* addresses the allocator hands out: one per column plus one candidate
Addrs == 1..(component_n + 1)
\* the initial, invalid entry of droppers and of layouts
NoDropper == 0
NoLayout == -1
\* entity versions a handle may carry; the store only ever holds 0
Versions == {0, 1}
\* handle indices: 0..cap-1 are in range, MaxCap is never in range
Indices == 0..MaxCap
\* the handles callers pass: every index with the version the store holds,
\* and entity 0 with a version it never holds
Handles == {h \in [index : Indices, version : Versions] :
                h.version = 0 \/ h.index = 0}

\* results of calls
None == [tag |-> "None", val |-> 0]
Some(v) == [tag |-> "Some", val |-> v]
Panic == [tag |-> "panic", val |-> 0]
RetUnit == [tag |-> "unit", val |-> 0]
RetOk == [tag |-> "Ok", val |-> 0]
RetErr == [tag |-> "Err", val |-> 0]
\* an empty bucket of the registry
NoEntry == [key |-> 0, ptr |-> 0]

VARIABLES
    phase,          \* "live" until the store is dropped, then "dropped"
    cap,            \* entities.capacity()
    entities,       \* entities.storage(): index -> [mask, version]
    component_ptrs, \* the registry: bucket -> NoEntry or [key: type, ptr]
    droppers,       \* bucket -> the type whose drop_in_place is stored
    layouts,        \* bucket -> the size of the stored Layout
    allocated,      \* addresses of the columns the allocator has handed out
    heap,           \* address -> index -> the value in that slot, or Uninit
    op,             \* the last call made and what kind of arguments it had
    ret,            \* what the last call returned
    fInvoked,       \* whether the last call invoked the closure f
    lastFull,       \* type -> index -> the last modify that ran f left Some
    dtorCalls,      \* bucket -> index -> destructor calls made by drop
    badFree         \* a dealloc of an address that was not allocated

storeVars == <<phase, cap, entities, component_ptrs, droppers, layouts,
               allocated, heap>>
ecsVars == <<phase, cap, entities, component_ptrs, droppers, layouts,
             allocated, heap, op, ret, fInvoked, lastFull, dtorCalls, badFree>>

(***************************************************************************)
(* Mask arithmetic (Mask = u64; the model keeps component_n bits).         *)
(***************************************************************************)
\* 0 != mask & 1 << k
TestBit(m, k) == (m \div (2 ^ k)) % 2 = 1
\* a store that forgets to set the presence bit
SetBitForgotten(m, k) == m
\* mask |= 1 << k
SetBit(m, k) == IF TestBit(m, k) THEN m ELSE m + 2 ^ k
\* a store that clears the whole mask instead of one bit
ClearBitWholeMask(m, k) == 0
\* mask &= !(1 << k)
ClearBit(m, k) == IF TestBit(m, k) THEN m - 2 ^ k ELSE m

(***************************************************************************)
(* The registry.                                                           *)
(***************************************************************************)
\* the buckets holding key c (at most one)
BucketsOf(c) == {k \in Slots : component_ptrs[k] # NoEntry /\ component_ptrs[k].key = c}
FreeBuckets == {k \in Slots : component_ptrs[k] = NoEntry}
Registered == {c \in Types : BucketsOf(c) # {}}

\* component::<C>(): find_with_ix, the bucket and the column pointer if any
component(c) ==
    IF BucketsOf(c) = {} THEN [found |-> FALSE, k |-> 0, ptr |-> Sentinel]
    ELSE LET k == CHOOSE b \in BucketsOf(c) : TRUE
         IN  [found |-> TRUE, k |-> k, ptr |-> component_ptrs[k].ptr]

\* the value at ptr.offset(i) read as a C; a zero-sized C reads no memory
Load(c, ptr, i) == IF SizeOf(c) = 0 THEN Unit ELSE heap[ptr][i]

\* a get that checks the index against cap before it reads the entity
GetBoundsChecked(c, h) ==
    LET x == component(c) IN
    IF ~x.found \/ h.index >= cap THEN None
    ELSE LET e == entities[h.index] IN
         IF h.version = e.version /\ TestBit(e.mask, x.k)
         THEN Some(Load(c, x.ptr, h.index))
         ELSE None

\* get::<C>(Entity { index, version }); storage()[k] panics out of range
Get(c, h) ==
    LET x == component(c) IN
    IF ~x.found THEN None
    ELSE IF h.index >= cap THEN Panic
    ELSE LET e == entities[h.index] IN
         IF h.version = e.version /\ TestBit(e.mask, x.k)
         THEN Some(Load(c, x.ptr, h.index))
         ELSE None

(***************************************************************************)
(* The record of the last call: which operation, whether its type C was    *)
(* registered when it was made, the kind of its other argument, and for a  *)
(* modify through a live handle of a registered type the pair it named and *)
(* what f left.                                                            *)
(***************************************************************************)
NoArg == [c |-> 0, i |-> 0, out |-> None]
Call(name, isReg, kind, arg) == [call |-> name, reg |-> isReg, kind |-> kind, arg |-> arg]
\* a handle is out of range ("oob"), "stale", or "live"
HandleKind(h) ==
    IF h.index >= cap THEN "oob"
    ELSE IF h.version # entities[h.index].version THEN "stale"
    ELSE "live"
\* a reg finds its column not allocable ("oom"), or the registry with
\* fewer than component_n types ("room") or with component_n ("full")
RegKind(c, oom) ==
    IF SizeOf(c) # 0 /\ oom THEN "oom"
    ELSE IF Cardinality(Registered) < component_n THEN "room"
    ELSE "full"

(***************************************************************************)
(* reg                                                                     *)
(***************************************************************************)
\* the pointer reg builds before it touches the registry: Unique::empty()
\* for a zero-sized C, else alloc_array(cap), here a first-fit allocator
\* handing out the lowest address not in use
CandidatePtrs(c) ==
    IF SizeOf(c) = 0 THEN {Sentinel}
    ELSE {a \in Addrs \ allocated : \A b \in Addrs \ allocated : a <= b}

\* a table that reports "full" while one bucket is still vacant
InsertCaseOneShort(c) ==
    IF BucketsOf(c) # {} THEN "present"
    ELSE IF Cardinality(FreeBuckets) > 1 THEN "vacant"
    ELSE "full"

\* what insert_with finds: the key "present", a "vacant" bucket, or "full"
InsertCase(c) ==
    IF BucketsOf(c) # {} THEN "present"
    ELSE IF FreeBuckets # {} THEN "vacant"
    ELSE "full"

\* a closure that keeps the candidate column instead of freeing it
ReleaseCandidateLeaked(c, al, a) == al

\* the Some(p) arm of reg's closure: the allocated set once the candidate
\* column a, allocated into al, was given back (zero-sized: nothing to free)
ReleaseCandidate(c, al, a) == IF SizeOf(c) # 0 THEN al \ {a} ELSE al

\* what reg returns when insert_with found the key present
RegPresentResult == RetOk

Reg(c, oom) ==
    /\ phase = "live"
    /\ op' = Call("reg", c \in Registered, RegKind(c, oom), NoArg)
    /\ fInvoked' = FALSE
    /\ UNCHANGED <<phase, cap, entities, heap, lastFull, dtorCalls>>
    /\ IF SizeOf(c) # 0 /\ oom
       THEN \* alloc_array fails and `?` returns the error
            /\ ret' = RetErr
            /\ UNCHANGED <<component_ptrs, droppers, layouts, allocated, badFree>>
       ELSE \E a \in CandidatePtrs(c) :
            LET al == IF SizeOf(c) # 0 THEN allocated \cup {a} ELSE allocated
                rel == ReleaseCandidate(c, al, a)
            IN
            CASE InsertCase(c) = "present" ->
                   \* closure(Some(p)): free the candidate, keep p; Ok((k, ..))
                   LET k == component(c).k IN
                   /\ allocated' = rel
                   /\ badFree' = (badFree \/ (SizeOf(c) # 0 /\ a \notin al))
                   /\ component_ptrs' = component_ptrs
                   /\ droppers' = [droppers EXCEPT ![k] = c]
                   /\ layouts' = [layouts EXCEPT ![k] = SizeOf(c)]
                   /\ ret' = RegPresentResult
              [] InsertCase(c) = "vacant" ->
                   \* closure(None): the candidate becomes the column
                   \E k \in FreeBuckets :
                   /\ allocated' = al
                   /\ badFree' = badFree
                   /\ component_ptrs' = [component_ptrs EXCEPT ![k] = [key |-> c, ptr |-> a]]
                   /\ droppers' = [droppers EXCEPT ![k] = c]
                   /\ layouts' = [layouts EXCEPT ![k] = SizeOf(c)]
                   /\ ret' = RetOk
              [] InsertCase(c) = "full" ->
                   \* Err((key, closure)): map_err runs closure(Some(0))
                   /\ allocated' = rel
                   /\ badFree' = (badFree \/ (SizeOf(c) # 0 /\ a \notin al))
                   /\ ret' = RetErr
                   /\ UNCHANGED <<component_ptrs, droppers, layouts>>

(***************************************************************************)
(* get, modify                                                             *)
(***************************************************************************)
GetCall(c, h) ==
    /\ phase = "live"
    /\ op' = Call("get", c \in Registered, HandleKind(h), NoArg)
    /\ ret' = Get(c, h)
    /\ fInvoked' = FALSE
    /\ UNCHANGED <<storeVars, lastFull, dtorCalls, badFree>>

\* what f may leave in the option
OptionsOf(c) == {None} \cup {Some(v) : v \in ValuesOf(c)}

\* a modify that never takes the stale-handle return
StaleHandleIgnored(v, e) == FALSE

\* `if v != e.version { return; }`
StaleHandle(v, e) == v # e.version

\* ptr::read(ptr): the value is moved out of the slot
MoveOut(c, ptr, i) == IF SizeOf(c) = 0 THEN heap ELSE [heap EXCEPT ![ptr][i] = Uninit]
\* ptr::write(ptr, x) into memory hp
MoveIn(hp, c, ptr, i, x) == IF SizeOf(c) = 0 THEN hp ELSE [hp EXCEPT ![ptr][i] = x]

\* modify::<C, F>(Entity { index, version }, f), f leaving `out` in the option
Modify(c, h, out) ==
    /\ phase = "live"
    /\ op' = Call("modify", c \in Registered, HandleKind(h),
                  IF c \in Registered /\ HandleKind(h) = "live"
                  THEN [c |-> c, i |-> h.index, out |-> out] ELSE NoArg)
    /\ UNCHANGED <<phase, cap, component_ptrs, droppers, layouts, allocated,
                   dtorCalls, badFree>>
    /\ LET x == component(c) IN
       IF ~x.found
       THEN /\ ret' = RetUnit /\ fInvoked' = FALSE
            /\ UNCHANGED <<entities, heap, lastFull>>
       ELSE IF h.index >= cap
       THEN \* storage_mut()[k] panics
            /\ ret' = Panic /\ fInvoked' = FALSE
            /\ UNCHANGED <<entities, heap, lastFull>>
       ELSE LET i == h.index
                e == entities[i]
            IN
            IF StaleHandle(h.version, e)
            THEN /\ ret' = RetUnit /\ fInvoked' = FALSE
                 /\ UNCHANGED <<entities, heap, lastFull>>
            ELSE LET had == TestBit(e.mask, x.k)
                     m1 == IF had THEN ClearBit(e.mask, x.k) ELSE e.mask
                     h1 == IF had THEN MoveOut(c, x.ptr, i) ELSE heap
                     m2 == IF out.tag = "Some" THEN SetBit(m1, x.k) ELSE m1
                     h2 == IF out.tag = "Some" THEN MoveIn(h1, c, x.ptr, i, out.val) ELSE h1
                 IN
                 /\ entities' = [entities EXCEPT ![i].mask = m2]
                 /\ heap' = h2
                 /\ fInvoked' = TRUE
                 /\ lastFull' = [lastFull EXCEPT ![c][i] = (out.tag = "Some")]
                 /\ ret' = RetUnit

(***************************************************************************)
(* Drop for Components                                                     *)
(***************************************************************************)
\* the iterator Ptrs { ptr, end, size }, as byte offsets from the column:
\* next() is None when end == ptr, else yields ptr and advances by size
RECURSIVE Ptrs(_, _, _)
Ptrs(ptr, end, size) ==
    IF end = ptr THEN <<>> ELSE <<ptr>> \o Ptrs(ptr + size, end, size)

\* the entity indices whose slot of bucket k the drop loop visits: the zip
\* of entities.storage() with Ptrs stops at the shorter of the two
Visited(k) ==
    LET size == layouts[k]
        ps == Ptrs(0, size * cap, size)
    IN  {i \in 0..(cap - 1) : i + 1 <= Len(ps)}

\* a drop that frees the column of every bucket, zero-sized or not
ReleasedAlways(k) == TRUE

\* `if 0 != layout.size() { dealloc(ptr, array_layout) }` for bucket k
Released(k) == layouts[k] # 0

DropStore ==
    /\ phase = "live"
    /\ phase' = "dropped"
    /\ op' = Call("drop", FALSE, "-", NoArg)
    /\ ret' = RetUnit
    /\ fInvoked' = FALSE
    /\ dtorCalls' = [k \in Slots |-> [i \in 0..(cap - 1) |->
                       IF /\ component_ptrs[k] # NoEntry
                          /\ i \in Visited(k)
                          /\ TestBit(entities[i].mask, k)
                       THEN 1 ELSE 0]]
    /\ LET freed == {component_ptrs[k].ptr : k \in {b \in Slots :
                          component_ptrs[b] # NoEntry /\ Released(b)}}
       IN  /\ allocated' = allocated \ freed
           /\ badFree' = (badFree \/ ~(freed \subseteq allocated))
           /\ heap' = [a \in Addrs |-> IF a \in freed
                                       THEN [i \in 0..(cap - 1) |-> Uninit]
                                       ELSE heap[a]]
    /\ UNCHANGED <<cap, entities, component_ptrs, droppers, layouts, lastFull>>

(***************************************************************************)
(* The component store as a state machine.                                 *)
(***************************************************************************)
\* with_capacity_in(a, cap)
\* an entity record made with a version other than 0
NewEntyVersioned == [mask |-> 0, version |-> 1]
\* Enty { mask: 0, version: 0 }
NewEnty == [mask |-> 0, version |-> 0]

EcsInit ==
    /\ phase = "live"
    /\ cap \in 1..MaxCap
    /\ entities = [i \in 0..(cap - 1) |-> NewEnty]
    /\ component_ptrs = [k \in Slots |-> NoEntry]
    /\ droppers = [k \in Slots |-> NoDropper]
    /\ layouts = [k \in Slots |-> NoLayout]
    /\ allocated = {}
    /\ heap = [a \in Addrs |-> [i \in 0..(cap - 1) |-> Uninit]]
    /\ op = Call("new", FALSE, "-", NoArg)
    /\ ret = RetUnit
    /\ fInvoked = FALSE
    /\ lastFull = [c \in Types |-> [i \in 0..(cap - 1) |-> FALSE]]
    /\ dtorCalls = [k \in Slots |-> [i \in 0..(cap - 1) |-> 0]]
    /\ badFree = FALSE

RegStep == \E c \in Types, oom \in BOOLEAN : Reg(c, oom)
GetStep == \E c \in Types, h \in Handles : GetCall(c, h)
ModifyStep == \E c \in Types, h \in Handles : \E out \in OptionsOf(c) : Modify(c, h, out)

EcsNext == RegStep \/ GetStep \/ ModifyStep \/ DropStore

(***************************************************************************)
(* Fixed-tick simulator (simul/src/lib.rs). Time is in nanoseconds.        *)
(***************************************************************************)
\* calls of go in a run
MaxFrames == 3
\* calls of simulate on one Frame
MaxSims == 2

\* a tick of 33 554 432 ns (about thirty steps a second)
TickBig == 2 ^ 25
\* the ticks handed to Simulator::new
Ticks == {3, 10, TickBig}
\* how far the clock has moved on between two readings of Point::now()
Spans == {0, 1, 4, 7, 9, 25}
\* how long a Frame lives after its last use
DropSpans == {0, 4}

VARIABLES
    tick,       \* Simulator.tick
    then,       \* Simulator.then
    cumul,      \* Simulator.cumul
    total,      \* Simulator.total
    now,        \* the clock at its last reading
    frameOn,    \* a Frame borrows the simulator
    frameStart, \* Frame.1, the instant go read
    frames,     \* calls of go so far
    sims,       \* calls of simulate on the current Frame
    steps,      \* calls of step since the simulator was made
    lastSpan,   \* the span the last simulate elapsed
    lastSteps,  \* calls of step in the last simulate
    simRet,     \* what the last simulate returned: "Ok", "Err", or "none"
    alpha,      \* the f32 operands of the factor the last simulate gave to i
    everErr,    \* some snapshot has failed
    sop,        \* the last call made
    snaps,      \* the calls of h in the last simulate: the state each was
                \* given and what it returned
    calls,      \* how often the last simulate called f, g and i
    views,      \* the two views the last simulate gave to i
    droppedAt,  \* Frame.1 of the last Frame dropped with no simulate called
                \* on it, or NoPoint
    fCalls,     \* calls of the closures given to go
    fArg        \* the span the last such call was given

simVars == <<tick, then, cumul, total, now, frameOn, frameStart, frames, sims,
             steps, lastSpan, lastSteps, simRet, alpha, everErr, sop,
             snaps, calls, views, droppedAt, fCalls, fArg>>

\* no instant: the clock starts at 0 and never runs backwards
NoPoint == -1
\* what h(state) may return: Err(e), Ok(None), Ok(Some(b))
SnapshotResults == {"Err", "None", "Some"}
\* the state A after a steps is a; f(state) and g(prior_state) are tagged by
\* the function that made them
RenderView(a) == [by |-> "f", of |-> a]
PriorView(b) == [by |-> "g", of |-> b]
NoView == [by |-> "none", of |-> 0]
NoViews == [cur |-> NoView, prior |-> NoView]
NoCalls == [f |-> 0, g |-> 0, i |-> 0]

\* the spacing of f32 values at magnitude m (24 bits of significand)
RECURSIVE Ulp(_)
Ulp(m) == IF m < 16777216 THEN 1 ELSE 2 * Ulp(m \div 2)

\* `n as f32` for an integer n: the nearest f32, ties to the even significand
F32(n) ==
    LET m == IF n < 0 THEN -n ELSE n
        u == Ulp(m)
        q == m \div u
        r == m % u
        up == 2 * r > u \/ (2 * r = u /\ q % 2 = 1)
        v == IF up THEN (q + 1) * u ELSE q * u
    IN  IF n < 0 THEN -v ELSE v

\* (cumul.to_ns() as f32 / tick.to_ns() as f32).neg(): the factor is
\* -(num / den), kept as the two f32 operands of the division
Alpha(cu, t) == [num |-> F32(cu), den |-> F32(t)]
NoAlpha == [num |-> 0, den |-> 1]
\* 0 <= -(num / den): the quotient of a non-positive by a positive f32
AlphaNonNegative(a) == a.num <= 0 /\ a.den > 0
\* -(num / den) < 1: a correctly rounded quotient of two f32 values is below
\* one exactly when the dividend is below the divisor
AlphaBelowOne(a) == -a.num < a.den

\* a loop that steps only while a whole tick is left
ContinueWholeTicks(cu) == cu >= tick
\* `while self.cumul > Zero::zero`
Continue(cu) == cu > 0

\* a snapshot taken also when the last tick is used up exactly
FinalStepOrLanding(cu1) == cu1 <= 0
\* `if self.cumul < Zero::zero` after the subtraction: the step about to be
\* made overshoots
FinalStep(cu1) == cu1 < 0

\* an Err of h that is not returned: the loop goes on as after Ok(None)
PropagateNever(res) == FALSE
\* the `?` on h(state): Err(e) is returned from simulate at once
Propagate(res) == res = "Err"

\* the loop of simulate from accumulator cu with n steps made, h returning
\* res whenever called: each round subtracts the tick, takes the snapshot
\* when the accumulator went negative (returning its error at once), and
\* steps. The state given to h is the one after the steps made so far; a
\* later Ok of h overwrites prior_state_opt
RECURSIVE Loop(_, _, _)
Loop(cu, n, res) ==
    IF ~Continue(cu)
    THEN [cumul |-> cu, steps |-> n, err |-> FALSE, snaps |-> <<>>,
          prior |-> None]
    ELSE LET cu1 == cu - tick
             snap == [at |-> steps + n, out |-> res]
         IN  IF FinalStep(cu1)
             THEN IF Propagate(res)
                  THEN [cumul |-> cu1, steps |-> n, err |-> TRUE,
                        snaps |-> <<snap>>, prior |-> None]
                  ELSE LET r == Loop(cu1, n + 1, res)
                           mine == IF res = "Some" THEN Some(steps + n)
                                   ELSE None
                       IN  [r EXCEPT !.snaps = <<snap>> \o @,
                                     !.prior = IF r.snaps = <<>> THEN mine
                                               ELSE @]
             ELSE Loop(cu1, n + 1, res)

\* a span that leaves out the time up to a Frame dropped unsimulated
ElapsedSinceDrop(nowPt) ==
    nowPt - (IF droppedAt > then THEN droppedAt ELSE then)
\* elapse(now): let elapsed = now - self.then
Elapsed(nowPt) == nowPt - then
\* an elapse that forgets to move `then`
ThenKept(nowPt) == then
\* elapse(now): self.then = now
ThenAfter(nowPt) == nowPt
\* a total that counts whole ticks only
TotalFromTicks(elapsed) == total + tick * (elapsed \div tick)
\* elapse(now): self.total += elapsed
TotalAfter(elapsed) == total + elapsed

\* Ok(i(alpha, f(state), prior_state_opt.as_ref().map_or(f(state), g))):
\* the default of map_or is an argument, so f runs for it in any case
ViewsOf(a, prior) ==
    [cur |-> RenderView(a),
     prior |-> IF prior = None THEN RenderView(a) ELSE PriorView(prior.val)]
CallsOf(prior) == [f |-> 2, g |-> IF prior = None THEN 0 ELSE 1, i |-> 1]

\* Simulator::new(tick)
SimInit ==
    /\ tick \in Ticks
    /\ now = 0
    /\ then = 0
    /\ cumul = 0
    /\ total = 0
    /\ frameOn = FALSE
    /\ frameStart = 0
    /\ frames = 0
    /\ sims = 0
    /\ steps = 0
    /\ lastSpan = 0
    /\ lastSteps = 0
    /\ simRet = "none"
    /\ alpha = NoAlpha
    /\ everErr = FALSE
    /\ sop = "new"
    /\ snaps = <<>>
    /\ calls = NoCalls
    /\ views = NoViews
    /\ droppedAt = NoPoint
    /\ fCalls = 0
    /\ fArg = 0

\* go(f): a Frame that remembers Point::now(), d after the last reading
Go(d) ==
    /\ ~frameOn
    /\ frames < MaxFrames
    /\ now' = now + d
    /\ frameStart' = now + d
    /\ frameOn' = TRUE
    /\ frames' = frames + 1
    /\ sims' = 0
    /\ sop' = "go"
    /\ UNCHANGED <<tick, then, cumul, total, steps, lastSpan, lastSteps,
                   simRet, alpha, everErr, snaps, calls, views, droppedAt,
                   fCalls, fArg>>

\* Frame::simulate(state, step, f, g, h, i), h returning res when called
Simulate(res) ==
    /\ frameOn
    /\ sims < MaxSims
    /\ LET elapsed == Elapsed(frameStart)
           r == Loop(cumul + elapsed, 0, res)
       IN  /\ then' = ThenAfter(frameStart)
           /\ total' = TotalAfter(elapsed)
           /\ cumul' = r.cumul
           /\ steps' = steps + r.steps
           /\ lastSpan' = elapsed
           /\ lastSteps' = r.steps
           /\ simRet' = (IF r.err THEN "Err" ELSE "Ok")
           /\ alpha' = (IF r.err THEN NoAlpha ELSE Alpha(r.cumul, tick))
           /\ everErr' = (everErr \/ r.err)
           /\ snaps' = r.snaps
           /\ calls' = (IF r.err THEN NoCalls ELSE CallsOf(r.prior))
           /\ views' = (IF r.err THEN NoViews
                        ELSE ViewsOf(steps + r.steps, r.prior))
    /\ sims' = sims + 1
    /\ sop' = "simulate"
    /\ UNCHANGED <<tick, now, frameOn, frameStart, frames, droppedAt, fCalls,
                   fArg>>

\* the span given to the closure, measured from the wrong instant
ClosureSpanSinceThen(nowPt) == nowPt - then
\* time::Point::now() - self.1
ClosureSpan(nowPt) == nowPt - frameStart

\* Drop for Frame: the closure is given Point::now() - self.1
DropFrame(d) ==
    /\ frameOn
    /\ frameOn' = FALSE
    /\ now' = now + d
    /\ fCalls' = fCalls + 1
    /\ fArg' = ClosureSpan(now + d)
    /\ droppedAt' = (IF sims = 0 THEN frameStart ELSE droppedAt)
    /\ sop' = "drop"
    /\ UNCHANGED <<tick, then, cumul, total, frameStart, frames, sims, steps,
                   lastSpan, lastSteps, simRet, alpha, everErr, snaps, calls,
                   views>>

GoStep == \E d \in Spans : Go(d)
SimulateStep == \E res \in SnapshotResults : Simulate(res)
DropFrameStep == \E d \in DropSpans : DropFrame(d)

SimNext == GoStep \/ SimulateStep \/ DropFrameStep

(***************************************************************************)
(* The older store ECS of src/src/component.rs: masks without versions,    *)
(* entities named by their index, one drop function per registry bucket.   *)
(***************************************************************************)
\* the component types registered with the older store: those with a size
\* (what alloc_array does for a zero-sized type is the allocator's affair)
OldTypes == {c \in Types : SizeOf(c) # 0}
\* an empty bucket of the older registry
OldNoEntry == 0
\* what a slot of a column holds: never written, a live value, or the bits
\* of a value that ptr::read moved out
CellStates == {"uninit", "live", "moved"}
\* a slot no destructor has run on
NotDropped == "none"

VARIABLES
    oldPhase,    \* "live" or "dropped"
    oldCap,      \* masks.capacity()
    masks,       \* ECS.masks
    oldPtrs,     \* ECS.component_ptrs: the type in each bucket
    oldDroppers, \* ECS.droppers: the type whose drop_components was written
                 \* at each offset
    cells,       \* the columns: the state of slot i of the column of bucket k
    dtorOn,      \* what drop_in_place has run on, per bucket and slot
    oldOob,      \* a drop function was written beyond the droppers array
    oldCrashed,  \* drop called through memory beyond the droppers array
    oldOp,       \* the last call made
    oldRet       \* what it returned

oldVars == <<oldPhase, oldCap, masks, oldPtrs, oldDroppers, cells, dtorOn,
             oldOob, oldCrashed, oldOp, oldRet>>

OldBucketsOf(c) == {k \in Slots : oldPtrs[k] = c}
OldFreeBuckets == {k \in Slots : oldPtrs[k] = OldNoEntry}
OldRegistered == {c \in OldTypes : OldBucketsOf(c) # {}}
\* component::<C>(): find_with_ix
OldComponent(c) == CHOOSE k \in OldBucketsOf(c) : TRUE

\* ECS::with_capacity_in(a, cap): masks zeroed, droppers an array of cap
\* entries left as allocated
OldInit ==
    /\ oldPhase = "live"
    /\ oldCap \in 1..MaxCap
    /\ masks = [i \in 0..(oldCap - 1) |-> 0]
    /\ oldPtrs = [k \in Slots |-> OldNoEntry]
    /\ oldDroppers = [k \in Slots |-> NoDropper]
    /\ cells = [k \in Slots |-> [i \in 0..(oldCap - 1) |-> "uninit"]]
    /\ dtorOn = [k \in Slots |-> [i \in 0..(oldCap - 1) |-> NotDropped]]
    /\ oldOob = FALSE
    /\ oldCrashed = FALSE
    /\ oldOp = "new"
    /\ oldRet = RetUnit

\* ECS::reg::<C>(): the candidate column is allocated (or reg returns None),
\* a present key keeps its column and the candidate is freed, a new key
\* takes a free bucket with the candidate as its column, a full table frees
\* the candidate; on Ok the drop function is written at offset k of droppers
OldReg(c, oom) ==
    /\ oldPhase = "live"
    /\ oldOp' = "reg"
    /\ UNCHANGED <<oldPhase, oldCap, masks, dtorOn, oldCrashed>>
    /\ IF oom
       THEN /\ oldRet' = None
            /\ UNCHANGED <<oldPtrs, oldDroppers, cells, oldOob>>
       ELSE IF c \in OldRegistered
       THEN LET k == OldComponent(c) IN
            /\ oldDroppers' = [oldDroppers EXCEPT ![k] = c]
            /\ oldOob' = (oldOob \/ k >= oldCap)
            /\ oldRet' = Some(Unit)
            /\ UNCHANGED <<oldPtrs, cells>>
       ELSE IF OldFreeBuckets # {}
       THEN \E k \in OldFreeBuckets :
            /\ oldPtrs' = [oldPtrs EXCEPT ![k] = c]
            /\ cells' = [cells EXCEPT ![k] = [i \in 0..(oldCap - 1) |-> "uninit"]]
            /\ oldDroppers' = [oldDroppers EXCEPT ![k] = c]
            /\ oldOob' = (oldOob \/ k >= oldCap)
            /\ oldRet' = Some(Unit)
       ELSE /\ oldRet' = None
            /\ UNCHANGED <<oldPtrs, oldDroppers, cells, oldOob>>

\* ECS::get::<C>(k): Some when the type is registered and the bit is set
OldGet(c, i) ==
    /\ oldPhase = "live"
    /\ oldOp' = "get"
    /\ oldRet' = (IF c \in OldRegistered /\ TestBit(masks[i], OldComponent(c))
                  THEN Some(cells[OldComponent(c)][i]) ELSE None)
    /\ UNCHANGED <<oldPhase, oldCap, masks, oldPtrs, oldDroppers, cells,
                   dtorOn, oldOob, oldCrashed>>

\* ECS::modify::<C, F>(k, f), f returning `out`: a set bit is cleared and the
\* value moved out to f; Some from f sets the bit and writes the value
OldModify(c, i, out) ==
    /\ oldPhase = "live"
    /\ oldOp' = "modify"
    /\ oldRet' = RetUnit
    /\ UNCHANGED <<oldPhase, oldCap, oldPtrs, oldDroppers, dtorOn, oldOob,
                   oldCrashed>>
    /\ IF c \notin OldRegistered
       THEN UNCHANGED <<masks, cells>>
       ELSE LET ck == OldComponent(c)
                m1 == IF TestBit(masks[i], ck) THEN ClearBit(masks[i], ck)
                      ELSE masks[i]
                s1 == IF TestBit(masks[i], ck) THEN "moved" ELSE cells[ck][i]
            IN  IF out = "None"
                THEN /\ masks' = [masks EXCEPT ![i] = m1]
                     /\ cells' = [cells EXCEPT ![ck][i] = s1]
                ELSE /\ masks' = [masks EXCEPT ![i] = SetBit(m1, ck)]
                     /\ cells' = [cells EXCEPT ![ck][i] = "live"]

\* drop_components::<C, A>(ptr, n, a): drop_in_place on each of the n slots
\* of the column; slot i of bucket k is destroyed in the state it is in
drop_components(k, i) == cells[k][i]

\* Drop for ECS: for every registry entry the function at offset k of
\* droppers is called on the column. An offset beyond the array was written
\* and is read out of bounds: the call reaches drop_components or, `wild`,
\* anything else
OldDrop(wild) ==
    /\ oldPhase = "live"
    /\ oldPhase' = "dropped"
    /\ oldOp' = "drop"
    /\ oldRet' = RetUnit
    /\ LET lost == {k \in Slots : oldPtrs[k] # OldNoEntry /\ k >= oldCap /\ wild}
       IN  /\ dtorOn' = [k \in Slots |-> [i \in 0..(oldCap - 1) |->
                            IF oldPtrs[k] # OldNoEntry /\ k \notin lost
                            THEN drop_components(k, i) ELSE NotDropped]]
           /\ oldCrashed' = (lost # {})
    /\ UNCHANGED <<oldCap, masks, oldPtrs, oldDroppers, cells, oldOob>>

OldRegStep == \E c \in OldTypes, oom \in BOOLEAN : OldReg(c, oom)
OldGetStep == \E c \in OldTypes, i \in 0..(oldCap - 1) : OldGet(c, i)
OldModifyStep ==
    \E c \in OldTypes, i \in 0..(oldCap - 1), out \in {"None", "Some"} :
        OldModify(c, i, out)
OldDropStep == \E wild \in BOOLEAN : OldDrop(wild)

(***************************************************************************)
(* The specifications: each library runs while the others are idle.        *)
(***************************************************************************)
vars == <<ecsVars, simVars, oldVars>>

\* a simulator nothing is called on
SimIdle == SimInit /\ tick = 10
\* a store of one entity nothing is called on
EcsIdle == EcsInit /\ cap = 1

\* an older store of one entity nothing is called on
OldIdle == OldInit /\ oldCap = 1

Init == EcsInit /\ SimIdle /\ OldIdle
Next ==
    \/ RegStep /\ UNCHANGED <<simVars, oldVars>>
    \/ GetStep /\ UNCHANGED <<simVars, oldVars>>
    \/ ModifyStep /\ UNCHANGED <<simVars, oldVars>>
    \/ DropStore /\ UNCHANGED <<simVars, oldVars>>
Spec == Init /\ [][Next]_vars

SimSpecInit == SimInit /\ EcsIdle /\ OldIdle
SimSpecNext ==
    \/ GoStep /\ UNCHANGED <<ecsVars, oldVars>>
    \/ SimulateStep /\ UNCHANGED <<ecsVars, oldVars>>
    \/ DropFrameStep /\ UNCHANGED <<ecsVars, oldVars>>
SimSpec == SimSpecInit /\ [][SimSpecNext]_vars

OldSpecInit == OldInit /\ EcsIdle /\ SimIdle
OldSpecNext ==
    \/ OldRegStep /\ UNCHANGED <<ecsVars, simVars>>
    \/ OldGetStep /\ UNCHANGED <<ecsVars, simVars>>
    \/ OldModifyStep /\ UNCHANGED <<ecsVars, simVars>>
    \/ OldDropStep /\ UNCHANGED <<ecsVars, simVars>>
OldSpec == OldSpecInit /\ [][OldSpecNext]_vars

(***************************************************************************)
(* Properties of the component store, checked under Spec.                  *)
(***************************************************************************)
\* the live handle of entity i
LiveHandle(i) == [index |-> i, version |-> entities[i].version]
InRange == 0..(cap - 1)

\* C1: for every entity i < cap and every registered type C at bucket k,
\* get::<C> through the live handle returns Some (of a value of C) iff the
\* last modify::<C>(i, f) that ran f left the option full, iff bit k of
\* entities[i].mask is set
C1_PresenceAgrees ==
    phase = "live" =>
    \A c \in Registered, i \in InRange :
        LET g == Get(c, LiveHandle(i)) IN
        /\ g.tag \in {"Some", "None"}
        /\ (g.tag = "Some") <=> lastFull[c][i]
        /\ lastFull[c][i] <=> TestBit(entities[i].mask, component(c).k)
        /\ g.tag = "Some" => g.val \in ValuesOf(c)

\* a get through a live handle returned Some while another pair is empty
C1_Witness ==
    /\ op.call = "get" /\ op.kind = "live" /\ ret.tag = "Some"
    /\ \E c \in Registered, i \in InRange : ~lastFull[c][i]

\* C2: a modify::<C>(e, f) through a live handle leaves in get::<C>(e)
\* exactly what f left, and changes the result of no other get and no
\* other presence bit
C2_ModifyFrame ==
    [][(op'.call = "modify" /\ op'.reg /\ op'.kind = "live") =>
        \A c \in Types, i \in InRange :
        (c = op'.arg.c /\ i = op'.arg.i) =>
        /\ fInvoked'
        /\ Get(c, LiveHandle(i))' = op'.arg.out
        /\ Registered' = Registered
        /\ \A c2 \in Registered, i2 \in InRange :
              <<c2, i2>> # <<c, i>>
              => Get(c2, LiveHandle(i2))' = Get(c2, LiveHandle(i2))
        /\ \A k \in Slots, i2 \in InRange :
              <<k, i2>> # <<component(c).k, i>>
              => (TestBit(entities[i2].mask, k))' = TestBit(entities[i2].mask, k)
      ]_vars

\* a modify ran f while a component of another type on another entity is held
C2_Witness ==
    /\ op.call = "modify" /\ op.reg /\ op.kind = "live" /\ fInvoked
    /\ \E c2 \in Types, i2 \in InRange :
          c2 # op.arg.c /\ i2 # op.arg.i /\ lastFull[c2][i2]

\* C3: once the store is dropped, the destructor has run exactly once on
\* every slot a modify left full, for every registered type, and never on a
\* slot whose presence bit is clear
C3_DropRunsEachDestructorOnce ==
    phase = "dropped" =>
    \A c \in Registered, i \in InRange :
        dtorCalls[component(c).k][i] = (IF lastFull[c][i] THEN 1 ELSE 0)

\* C4 as stated: a reg of an already registered type returns an error and
\* changes nothing
C4_DuplicateRegFails ==
    [][(op'.call = "reg" /\ op'.reg) => (ret' = RetErr /\ UNCHANGED storeVars)]_vars

\* C4 amended: a reg of an already registered type returns Ok(()) (Err only
\* when the candidate column cannot be allocated) and leaves the registry,
\* the columns, the drop table and every mask as they were
C4_DuplicateRegIsOkNoop ==
    [][(op'.call = "reg" /\ op'.reg)
        => /\ ret' = (IF op'.kind = "oom" THEN RetErr ELSE RetOk)
           /\ UNCHANGED storeVars
      ]_vars

\* a reg of a registered sized type returned Ok, a component being stored
C4_Witness ==
    /\ op.call = "reg" /\ op.reg /\ op.kind # "oom" /\ ret = RetOk
    /\ \E c \in Registered, i \in InRange : lastFull[c][i] /\ SizeOf(c) # 0

\* C5: a reg of a new type (its column allocated) succeeds while fewer than
\* component_n types are registered; with component_n registered it returns
\* an error and leaves the registrations and every get as before
C5_RegistryHoldsExactlyM ==
    [][(op'.call = "reg" /\ ~op'.reg) =>
        /\ op'.kind = "room" =>
              /\ ret' = RetOk
              /\ Registered \subseteq Registered'
              /\ Cardinality(Registered') = Cardinality(Registered) + 1
        /\ op'.kind = "full" =>
              /\ ret' = RetErr
              /\ Cardinality(Registered) = component_n
              /\ UNCHANGED storeVars
              /\ \A c2 \in Types, h2 \in Handles : Get(c2, h2)' = Get(c2, h2)
      ]_vars

\* a reg of a new type was refused by a full registry that holds a component
C5_Witness ==
    /\ op.call = "reg" /\ ~op.reg /\ op.kind = "full" /\ ret = RetErr
    /\ Cardinality(Registered) = component_n
    /\ \E c \in Registered, i \in InRange : lastFull[c][i]

\* C6 as stated: get through a handle with index >= cap returns None
C6_GetOutOfRangeIsNone ==
    (op.call = "get" /\ op.kind = "oob") => ret = None

\* C6 amended: get through a handle with index >= cap returns None when C
\* is not registered, and panics on the entity index when C is registered
C6_GetOutOfRange ==
    (op.call = "get" /\ op.kind = "oob")
    => ret = (IF op.reg THEN Panic ELSE None)

\* a get of a registered type through an out-of-range handle panicked
C6_Witness == op.call = "get" /\ op.kind = "oob" /\ op.reg /\ ret = Panic

\* C7: with C unregistered, or the handle stale (index < cap), modify does
\* not run f and changes nothing, and get returns None
C7_StaleOrUnregisteredIsNoop ==
    [][(~op'.reg \/ op'.kind = "stale") =>
        /\ op'.call = "modify" =>
              /\ ~fInvoked'
              /\ ret' = RetUnit
              /\ UNCHANGED <<storeVars, lastFull>>
        /\ op'.call = "get" => ret' = None
      ]_vars

\* a modify of a registered type through a stale handle returned, a
\* component being stored on that entity
C7_Witness ==
    /\ op.call = "modify" /\ op.reg /\ op.kind = "stale"
    /\ \E c \in Registered, i \in InRange : lastFull[c][i]

\* the buckets whose type has a size
SizedBuckets == {k \in Slots : component_ptrs[k] # NoEntry
                               /\ SizeOf(component_ptrs[k].key) # 0}

\* C8: no column is released twice; while the store lives the allocated
\* columns are exactly those of the registered sized types, one each (a
\* candidate that did not enter the registry is gone when reg returns, a
\* zero-sized type holds the sentinel); once the store is dropped none is left
C8_ColumnsReleasedOnce ==
    /\ ~badFree
    /\ \A k \in Slots \ SizedBuckets :
          component_ptrs[k] # NoEntry => component_ptrs[k].ptr = Sentinel
    /\ phase = "live" =>
          /\ allocated = {component_ptrs[k].ptr : k \in SizedBuckets}
          /\ Cardinality(allocated) = Cardinality(SizedBuckets)
    /\ phase = "dropped" => allocated = {}

\* the store was dropped with a sized and a zero-sized type registered
C8_Witness ==
    /\ phase = "dropped"
    /\ \E c \in Registered, c2 \in Registered : SizeOf(c) # 0 /\ SizeOf(c2) = 0

\* C20: no call changes an entity's version: every version is 0 as
\* with_capacity_in made it, so a handle is live exactly when its version is
\* 0, for the whole life of the store, and the stale branch of get and
\* modify is taken only for a handle whose version was never valid
C20_VersionsNeverChange ==
    /\ \A i \in InRange : entities[i].version = 0
    /\ \A h \in Handles :
          h.index < cap => (HandleKind(h) = "live" <=> h.version = 0)
    /\ (op.kind = "stale" /\ op.reg /\ op.call = "get") => ret = None

\* a get through a stale handle returned while masks had been written
C20_Witness ==
    /\ op.call = "get" /\ op.kind = "stale" /\ op.reg /\ ret = None
    /\ \E i \in InRange : entities[i].mask # 0

(***************************************************************************)
(* Properties of the simulator, checked under SimSpec.                     *)
(***************************************************************************)
\* the least n with n * t >= x, for x >= 0
CeilDiv(x, t) == (x + t - 1) \div t

\* C9 as stated: while no snapshot has failed, step has been called
\* floor(total / tick) times
C9_StepsAreFloor ==
    ~everErr => steps = total \div tick

\* C9 amended: while no snapshot has failed, step has been called
\* ceil(total / tick) times, the last simulate having made the difference;
\* with a tick of 10 the spans 4, 7, 9 make 1, 1, 0 steps
C9_StepsAreCeil ==
    ~everErr =>
        /\ steps = CeilDiv(total, tick)
        /\ lastSteps = CeilDiv(total, tick) - CeilDiv(total - lastSpan, tick)
        /\ (tick = 10 /\ total = 4 /\ lastSpan = 4) => lastSteps = 1
        /\ (tick = 10 /\ total = 11 /\ lastSpan = 7) => lastSteps = 1
        /\ (tick = 10 /\ total = 20 /\ lastSpan = 9) => lastSteps = 0

\* the third frame of the spans 4, 7, 9 under a tick of 10
C9_Witness ==
    /\ sop = "simulate" /\ simRet = "Ok" /\ ~everErr
    /\ tick = 10 /\ frames = 3 /\ total = 20 /\ lastSpan = 9
    /\ steps = 2

\* C10: after a simulate that returned Ok, -tick < cumul <= 0 and the
\* factor given to interpolate is at least 0 and below 1
C10_AlphaInUnitInterval ==
    simRet = "Ok" =>
        /\ -tick < cumul /\ cumul <= 0
        /\ AlphaNonNegative(alpha)
        /\ AlphaBelowOne(alpha)

\* C11: total_time() is the sum of the spans elapse has seen: every simulate
\* adds exactly the span it elapsed, whatever the step loop then does, so the
\* total is the time from construction to the last instant consulted; no
\* call (go, simulate, drop of a Frame) decreases it
C11_TotalIsSumOfSpans ==
    [][/\ total' >= total
       /\ total' = then'
       /\ sop' = "simulate" =>
              /\ lastSpan' = frameStart - then
              /\ lastSpan' >= 0
              /\ total' = total + lastSpan'
       /\ sop' # "simulate" => total' = total
      ]_vars

\* a second Frame was simulated, its span not a whole number of ticks, and
\* its loop stepped
C11_Witness ==
    /\ sop = "simulate" /\ frames >= 2
    /\ lastSpan > 0 /\ lastSpan % tick # 0 /\ total > lastSpan
    /\ lastSteps >= 1

\* C12 as stated: a simulate that returned Ok after n >= 1 steps called h
\* exactly once, on the state after n-1 of them, and gave i the view of the
\* state after all n steps and (h having returned a prior state) the view of
\* that prior state; one that made no step did not call h and gave i
\* render_view of the unchanged state twice
C12_SnapshotOncePerSteppingCall ==
    (sop = "simulate" /\ simRet = "Ok") =>
        /\ views.cur = RenderView(steps)
        /\ lastSteps >= 1 =>
              /\ Len(snaps) = 1
              /\ snaps[1].at = steps - 1
              /\ snaps[1].out = "Some" => views.prior = PriorView(steps - 1)
        /\ lastSteps = 0 =>
              /\ snaps = <<>>
              /\ views.prior = RenderView(steps)

\* C12 amended: a simulate that returned Ok called h at most once, and
\* exactly when its last step overshot (cumul < 0 after a call that stepped),
\* on the state before that step; a call whose last step used the
\* accumulated time up exactly (cumul = 0), like one that made no step, did
\* not call h. i is given the view of the final state as current, and as
\* prior the view of the snapshot if h returned Some, else render_view of
\* the final state again
C12_SnapshotOnOvershoot ==
    (sop = "simulate" /\ simRet = "Ok") =>
        /\ Len(snaps) <= 1
        /\ Len(snaps) = 1 <=> (lastSteps >= 1 /\ cumul < 0)
        /\ Len(snaps) = 1 => snaps[1].at = steps - 1
        /\ (lastSteps >= 1 /\ cumul = 0) => snaps = <<>>
        /\ views.cur = RenderView(steps)
        /\ views.prior = (IF snaps # <<>> /\ snaps[1].out = "Some"
                          THEN PriorView(steps - 1)
                          ELSE RenderView(steps))

\* one Frame of 25 under a tick of 10: three steps, the snapshot before the
\* third, half a tick of overshoot
C12_Witness ==
    /\ sop = "simulate" /\ simRet = "Ok"
    /\ tick = 10 /\ lastSpan = 25 /\ total = 25 /\ lastSteps = 3
    /\ cumul = -5
    /\ snaps = <<[at |-> 2, out |-> "Some"]>>
    /\ views = [cur |-> RenderView(3), prior |-> PriorView(2)]

\* C13: a simulate in which h returned Err returned Err at once: h was not
\* called again and no step followed it (the state h failed on is the final
\* state), f, g and i were not called, and the steps made before and the
\* span elapsed stay in effect; simulate returns Err in no other case
C13_SnapshotErrAborts ==
    sop = "simulate" =>
        /\ simRet = "Err" <=> (\E k \in DOMAIN snaps : snaps[k].out = "Err")
        /\ simRet = "Err" =>
              /\ Len(snaps) = 1
              /\ snaps[1].at = steps
              /\ calls = NoCalls
              /\ views = NoViews
              /\ then = frameStart
              /\ total = frameStart
        /\ simRet = "Ok" => calls.i = 1 /\ calls.f = 2

\* h failed after two steps of the call had been made
C13_Witness ==
    /\ sop = "simulate" /\ simRet = "Err"
    /\ lastSteps = 2 /\ lastSpan > 0
    /\ snaps = <<[at |-> steps, out |-> "Err"]>>

\* C14 as stated: the time between `then` and the start of a Frame dropped
\* with no simulate is never added to the total, neither by the drop nor by
\* a later simulate, which so adds at most the time since that start
C14_DroppedFrameDiscardsTime ==
    [][/\ sop' = "drop" => UNCHANGED <<cumul, total>>
       /\ (sop' = "simulate" /\ droppedAt >= then) =>
              total' - total <= frameStart - droppedAt
      ]_vars

\* C14 amended: go and the drop of a Frame change nothing in the simulator,
\* so nothing is discarded: `then` stays where the last simulate left it and
\* the next simulate elapses the whole time since then, the time up to the
\* dropped Frame's start included
C14_DroppedFrameTimeIsKept ==
    [][/\ sop' \in {"go", "drop"} =>
              UNCHANGED <<tick, then, cumul, total, steps>>
       /\ (sop' = "simulate" /\ droppedAt >= then) =>
              /\ total' - total = (droppedAt - then) + (frameStart - droppedAt)
              /\ cumul' + tick * lastSteps' + (IF simRet' = "Err" THEN tick
                                                ELSE 0)
                     = cumul + (frameStart - then)
              /\ total' = frameStart
      ]_vars

\* a Frame that started 4 or more after `then` was dropped unsimulated and
\* the next Frame's simulate elapsed that time too
C14_Witness ==
    /\ sop = "simulate" /\ frames >= 2
    /\ droppedAt # NoPoint /\ droppedAt < frameStart
    /\ lastSpan >= (frameStart - droppedAt) + 4
    /\ total = frameStart

\* C15: the closure given to go has been called once for every Frame
\* dropped and not yet for the Frame still alive, however often simulate was
\* called on it and whatever it returned, and the drop gave it the span
\* from the Frame's start to the clock's reading in the drop
C15_ClosureOncePerFrame ==
    /\ fCalls = frames - (IF frameOn THEN 1 ELSE 0)
    /\ sop = "drop" => fArg = now - frameStart /\ fArg \in DropSpans
    /\ sop = "go" => frameStart = now

\* the first Frame was dropped 4 after its start, simulate having been
\* called twice on it and having returned Err the first time
C15_Witness ==
    /\ sop = "drop" /\ frames = 1 /\ fCalls = 1
    /\ sims = 2 /\ everErr /\ simRet = "Ok"
    /\ fArg = 4

\* C17: after every simulate, returned Ok or Err, the accumulator is the
\* total less one tick for every step made since construction
C17_CumulAccountsForSteps ==
    sop = "simulate" => cumul = total - tick * steps

\* C18: a simulate called on a Frame on which the simulate before returned
\* Ok elapses nothing: it makes no step and takes no snapshot, leaves then,
\* cumul and total as they were, returns Ok and gives i the same factor
C18_SecondSimulateElapsesNothing ==
    [][(sop = "simulate" /\ simRet = "Ok" /\ sims >= 1
        /\ sop' = "simulate" /\ sims' = sims + 1) =>
           /\ lastSpan' = 0
           /\ lastSteps' = 0
           /\ snaps' = <<>>
           /\ UNCHANGED <<then, cumul, total, steps>>
           /\ simRet' = "Ok"
           /\ alpha' = alpha
           /\ calls'.i = 1
      ]_vars

\* simulate was called a second time on a Frame whose first call had
\* stepped and left a part of a tick
C18_Witness ==
    /\ sop = "simulate" /\ sims = 2 /\ ~everErr /\ frames = 1
    /\ total > 0 /\ cumul < 0 /\ steps >= 1
    /\ lastSpan = 0 /\ lastSteps = 0
    /\ alpha.num < 0

(***************************************************************************)
(* Properties of the older store, checked under OldSpec.                   *)
(***************************************************************************)
\* C19: when the older store is dropped, a destructor has run on slot i of
\* the column of a registered type at bucket k exactly if bit k of masks[i]
\* is set: on no slot a value was moved out of by modify, on no slot never
\* written
C19_OldDropOnlyPresent ==
    (oldPhase = "dropped" /\ ~oldCrashed) =>
        \A k \in Slots, i \in 0..(oldCap - 1) :
            /\ oldPtrs[k] # OldNoEntry =>
                  (dtorOn[k][i] # NotDropped <=> TestBit(masks[i], k))
            /\ dtorOn[k][i] \notin {"uninit", "moved"}

====
